---- MODULE Spec2Model ----
(***************************************************************************)
(* Model of custom_components/homeconnect_ws/entity_descriptions:          *)
(* the classifier _create_entity_description and the aggregation loop      *)
(* get_available_entities.                                                 *)
(*                                                                         *)
(* A data point ("entity") is a record                                     *)
(*   access        the access attribute, "absent" when the object has none *)
(*   enum          [none, values]: None, or the dict's values in key order *)
(*   value         [type, repr]: the current value with its Python type    *)
(*   has_min/max   whether the object has a min / a max attribute          *)
(*   has_uid, uid  whether the object has _uid, and its value              *)
(*   has_appliance whether the object has _appliance                       *)
(* The appliance's description is [present, sections]: whether the         *)
(* appliance has a description attribute, and the dict from section name   *)
(* to the list of schema items.  A schema item is a record whose domain    *)
(* is the set of keys the item dict holds.                                 *)
(* A dotted name is the sequence of its segments; the key, in which the    *)
(* dots become underscores, is the sequence of the lower-cased segments.   *)
(***************************************************************************)
EXTENDS Integers, Sequences, FiniteSets, TLC

\* ---------------------------------------------------------------- bounds
MaxEntities == 2

\* ------------------------------------------------------ program constants
BoolRefCID == 1
BoolRefDID == 0
ColorRefCID == 30
ColorRefDID == 171
BinaryEnumLen == 2

READ == "READ"
READ_WRITE == "READ_WRITE"
WRITE_ONLY == "WRITE_ONLY"

SensorDeviceClassENUM == "enum"
NotSet == "not_set"

Sections == <<"status", "setting", "command", "option">>

binary_patterns ==
    << {"Off", "On"}, {"False", "True"}, {"Inactive", "Active"}, {"Disabled", "Enabled"} >>

BucketKeys ==
    { "button", "active_program", "binary_sensor", "event_sensor", "number",
      "program", "select", "sensor", "start_button", "switch", "wifi",
      "light", "fan", "text" }

EmptyBuckets == [b \in BucketKeys |-> <<>>]

\* --------------------------------------------------------------- helpers
Range(s) == { s[i] : i \in DOMAIN s }

Lower(s) ==
    CASE s = "BSH" -> "bsh"
      [] s = "Common" -> "common"
      [] s = "Setting" -> "setting"
      [] s = "Status" -> "status"
      [] s = "Command" -> "command"
      [] s = "PowerState" -> "powerstate"
      [] s = "DoorState" -> "doorstate"
      [] s = "AbortProgram" -> "abortprogram"
      [] s = "ChildLock" -> "childlock"
      [] OTHER -> s

KeyOf(entity_name) == [i \in DOMAIN entity_name |-> Lower(entity_name[i])]

DisplayNameOf(entity_name) == entity_name[Len(entity_name)]

AccessOf(entity) == IF entity.access = "absent" THEN READ ELSE entity.access

HasEnum(entity) == ~entity.enum.none

HasMinMax(entity) == entity.has_min \/ entity.has_max

EnumValues(entity) == IF HasEnum(entity) THEN entity.enum.values ELSE <<>>

is_binary_enum(enum_dict) ==
    IF Len(enum_dict) # BinaryEnumLen
    THEN FALSE
    ELSE \E p \in DOMAIN binary_patterns : Range(enum_dict) = binary_patterns[p]

\* item.get(k) == v, for a v that is not None
GetEquals(item, k, v) == k \in DOMAIN item /\ item[k] = v

RECURSIVE FlatItems(_, _)
FlatItems(desc, s) ==
    IF s > Len(Sections)
    THEN <<>>
    ELSE (IF Sections[s] \in DOMAIN desc THEN desc[Sections[s]] ELSE <<>>)
         \o FlatItems(desc, s + 1)

\* the items the nested loops reach whose uid is the data point's, in loop order
MatchingItems(entity, description) ==
    IF entity.has_uid /\ entity.has_appliance /\ description.present
    THEN SelectSeq(FlatItems(description.sections, 1),
                   LAMBDA item : GetEquals(item, "uid", entity.uid))
    ELSE <<>>

\* mutant: without the fallback on the current value
is_boolean_entity_NoFallback(entity, description) ==
    LET m == MatchingItems(entity, description)
    IN  IF m # <<>>
        THEN GetEquals(m[1], "refCID", BoolRefCID) /\ GetEquals(m[1], "refDID", BoolRefDID)
        ELSE FALSE

is_boolean_entity(entity, description) ==
    LET m == MatchingItems(entity, description)
    IN  IF m # <<>>
        THEN GetEquals(m[1], "refCID", BoolRefCID) /\ GetEquals(m[1], "refDID", BoolRefDID)
        ELSE entity.value.type = "bool"

is_color_entity(entity, description) ==
    LET m == MatchingItems(entity, description)
    IN  IF m # <<>>
        THEN GetEquals(m[1], "refCID", ColorRefCID) /\ GetEquals(m[1], "refDID", ColorRefDID)
        ELSE FALSE

Description(cls, entity_name, device_class) ==
    [ cls |-> cls,
      key |-> KeyOf(entity_name),
      entity |-> entity_name,
      name |-> DisplayNameOf(entity_name),
      translation_key |-> KeyOf(entity_name),
      device_class |-> device_class ]

\* a returned tuple (category, description); none = TRUE stands for None
Some(category, d) == [none |-> FALSE, category |-> category, description |-> d]
None == [none |-> TRUE, category |-> "", description |-> Description("", <<"">>, NotSet)]

\* ---------------------------------------------------------------- mutants
\* mutant: the enumeration is tested before the colour type
WritableBranch_EnumBeforeColor(entity_name, entity, description) ==
    IF is_boolean_entity(entity, description)
    THEN Some("switch", Description("HCSwitchEntityDescription", entity_name, NotSet))
    ELSE IF HasEnum(entity)
    THEN Some("select", Description("HCSelectEntityDescription", entity_name, NotSet))
    ELSE IF is_color_entity(entity, description)
    THEN Some("text", Description("HCTextEntityDescription", entity_name, NotSet))
    ELSE IF HasMinMax(entity)
    THEN Some("number", Description("HCNumberEntityDescription", entity_name, NotSet))
    ELSE Some("switch", Description("HCSwitchEntityDescription", entity_name, NotSet))

\* mutant: a binary enumeration makes a switch
WritableBranch_BinaryEnumSwitch(entity_name, entity, description) ==
    IF is_boolean_entity(entity, description)
    THEN Some("switch", Description("HCSwitchEntityDescription", entity_name, NotSet))
    ELSE IF is_color_entity(entity, description)
    THEN Some("text", Description("HCTextEntityDescription", entity_name, NotSet))
    ELSE IF HasEnum(entity) /\ is_binary_enum(EnumValues(entity))
    THEN Some("switch", Description("HCSwitchEntityDescription", entity_name, NotSet))
    ELSE IF HasEnum(entity)
    THEN Some("select", Description("HCSelectEntityDescription", entity_name, NotSet))
    ELSE IF HasMinMax(entity)
    THEN Some("number", Description("HCNumberEntityDescription", entity_name, NotSet))
    ELSE Some("switch", Description("HCSwitchEntityDescription", entity_name, NotSet))

\* mutant: the last branch is missing, so the function returns None
ReadOnlyBranch_NoFallback(entity_name, entity, description) ==
    IF HasEnum(entity) /\ is_binary_enum(EnumValues(entity))
    THEN Some("binary_sensor", Description("HCBinarySensorEntityDescription", entity_name, NotSet))
    ELSE IF is_boolean_entity(entity, description)
    THEN Some("binary_sensor", Description("HCBinarySensorEntityDescription", entity_name, NotSet))
    ELSE IF HasEnum(entity)
    THEN Some("sensor", Description("HCSensorEntityDescription", entity_name, SensorDeviceClassENUM))
    ELSE None

\* mutant: the enum sensor is built without its device class
ReadOnlyBranch_NoDeviceClass(entity_name, entity, description) ==
    IF HasEnum(entity) /\ is_binary_enum(EnumValues(entity))
    THEN Some("binary_sensor", Description("HCBinarySensorEntityDescription", entity_name, NotSet))
    ELSE IF is_boolean_entity(entity, description)
    THEN Some("binary_sensor", Description("HCBinarySensorEntityDescription", entity_name, NotSet))
    ELSE IF HasEnum(entity)
    THEN Some("sensor", Description("HCSensorEntityDescription", entity_name, NotSet))
    ELSE Some("sensor", Description("HCSensorEntityDescription", entity_name, NotSet))

\* mutant: a bounded read-only value makes a number
ReadOnlyBranch_BoundsNumber(entity_name, entity, description) ==
    IF HasEnum(entity) /\ is_binary_enum(EnumValues(entity))
    THEN Some("binary_sensor", Description("HCBinarySensorEntityDescription", entity_name, NotSet))
    ELSE IF is_boolean_entity(entity, description)
    THEN Some("binary_sensor", Description("HCBinarySensorEntityDescription", entity_name, NotSet))
    ELSE IF HasEnum(entity)
    THEN Some("sensor", Description("HCSensorEntityDescription", entity_name, SensorDeviceClassENUM))
    ELSE IF HasMinMax(entity)
    THEN Some("number", Description("HCNumberEntityDescription", entity_name, NotSet))
    ELSE Some("sensor", Description("HCSensorEntityDescription", entity_name, NotSet))

\* ------------------------------------------------------------ classifier
\* lines 100-142: the branch taken when access is READ_WRITE or WRITE_ONLY
WritableBranch(entity_name, entity, description) ==
    IF is_boolean_entity(entity, description)
    THEN Some("switch", Description("HCSwitchEntityDescription", entity_name, NotSet))
    ELSE IF is_color_entity(entity, description)
    THEN Some("text", Description("HCTextEntityDescription", entity_name, NotSet))
    ELSE IF HasEnum(entity)
    THEN Some("select", Description("HCSelectEntityDescription", entity_name, NotSet))
    ELSE IF HasMinMax(entity)
    THEN Some("number", Description("HCNumberEntityDescription", entity_name, NotSet))
    ELSE Some("switch", Description("HCSwitchEntityDescription", entity_name, NotSet))

\* lines 144-178: the branch taken for every other access value
ReadOnlyBranch(entity_name, entity, description) ==
    IF HasEnum(entity) /\ is_binary_enum(EnumValues(entity))
    THEN Some("binary_sensor", Description("HCBinarySensorEntityDescription", entity_name, NotSet))
    ELSE IF is_boolean_entity(entity, description)
    THEN Some("binary_sensor", Description("HCBinarySensorEntityDescription", entity_name, NotSet))
    ELSE IF HasEnum(entity)
    THEN Some("sensor", Description("HCSensorEntityDescription", entity_name, SensorDeviceClassENUM))
    ELSE Some("sensor", Description("HCSensorEntityDescription", entity_name, NotSet))

\* mutant: without the write-only test of line 92
create_entity_description_NoButton(entity_name, entity, description) ==
    IF AccessOf(entity) \in {READ_WRITE, WRITE_ONLY}
    THEN WritableBranch(entity_name, entity, description)
    ELSE ReadOnlyBranch(entity_name, entity, description)

\* mutant: every access other than READ counts as writable
create_entity_description_NotRead(entity_name, entity, description) ==
    IF AccessOf(entity) = WRITE_ONLY
    THEN Some("button", Description("HCButtonEntityDescription", entity_name, NotSet))
    ELSE IF AccessOf(entity) # READ
    THEN WritableBranch(entity_name, entity, description)
    ELSE ReadOnlyBranch(entity_name, entity, description)

create_entity_description(entity_name, entity, description) ==
    IF AccessOf(entity) = WRITE_ONLY
    THEN Some("button", Description("HCButtonEntityDescription", entity_name, NotSet))
    ELSE IF AccessOf(entity) \in {READ_WRITE, WRITE_ONLY}
    THEN WritableBranch(entity_name, entity, description)
    ELSE ReadOnlyBranch(entity_name, entity, description)

\* mutant: the description is inserted at the front of its bucket
AppendDescription_Prepend(buckets, entity_description) ==
    IF entity_description.none
    THEN buckets
    ELSE [buckets EXCEPT ![entity_description.category] =
              <<entity_description.description>> \o @]

\* mutant: a switch is also listed as a light
AppendDescription_AlsoLight(buckets, entity_description) ==
    IF entity_description.none
    THEN buckets
    ELSE IF entity_description.category = "switch"
    THEN [buckets EXCEPT !["switch"] = Append(@, entity_description.description),
                         !["light"] = Append(@, entity_description.description)]
    ELSE [buckets EXCEPT ![entity_description.category] =
              Append(@, entity_description.description)]

\* line 204-206: a tuple is truthy, None is not
AppendDescription(buckets, entity_description) ==
    IF entity_description.none
    THEN buckets
    ELSE [buckets EXCEPT ![entity_description.category] =
              Append(@, entity_description.description)]

\* ---------------------------------------------------------------- inputs
EntityNames ==
    << <<"BSH", "Common", "Setting", "PowerState">>,
       <<"BSH", "Common", "Status", "DoorState">>,
       <<"BSH", "Common", "Command", "AbortProgram">>,
       <<"BSH", "Common", "Setting", "ChildLock">> >>

AccessValues == {READ, READ_WRITE, WRITE_ONLY, "NONE", "READ_STATIC", "absent"}

EnumSamples ==
    { [none |-> TRUE, values |-> <<>>],
      [none |-> FALSE, values |-> <<>>],
      [none |-> FALSE, values |-> <<"Off", "On">>],
      [none |-> FALSE, values |-> <<"On", "On">>],
      [none |-> FALSE, values |-> <<"Open", "Closed">>],
      [none |-> FALSE, values |-> <<"Off", "On", "Standby">>] }

ValueSamples ==
    { [type |-> "bool", repr |-> "True"],
      [type |-> "int", repr |-> "1"],
      [type |-> "NoneType", repr |-> "None"] }

Uids == {1, 2, 3, 4}

\* how a data point is tied to the schema: no _uid, or a _uid with or without _appliance
SchemaLinks ==
    { [has_uid |-> FALSE, uid |-> 0, has_appliance |-> FALSE] }
    \cup { [has_uid |-> TRUE, uid |-> u, has_appliance |-> a] : u \in Uids, a \in BOOLEAN }

DataPoint(access, enum, value, has_min, has_max, link) ==
    [ access |-> access, enum |-> enum, value |-> value,
      has_min |-> has_min, has_max |-> has_max,
      has_uid |-> link.has_uid, uid |-> link.uid, has_appliance |-> link.has_appliance ]

DataPoints ==
    { DataPoint(a, e, v, mn, mx, l) :
        a \in AccessValues, e \in EnumSamples, v \in ValueSamples,
        mn \in BOOLEAN, mx \in BOOLEAN, l \in SchemaLinks }

\* the profiles used for appliances with several data points: a boolean value,
\* a binary enumeration, a bounded three-valued enumeration, a bounded number,
\* each under the three usual access modes and tied to schema uid 2
SampleProfiles ==
    { DataPoint(a, p[1], p[2], p[3], p[3], [has_uid |-> TRUE, uid |-> 2, has_appliance |-> TRUE]) :
        a \in {READ, READ_WRITE, WRITE_ONLY},
        p \in { << [none |-> TRUE, values |-> <<>>], [type |-> "bool", repr |-> "True"], FALSE >>,
                << [none |-> FALSE, values |-> <<"Off", "On">>], [type |-> "int", repr |-> "1"], FALSE >>,
                << [none |-> FALSE, values |-> <<"Off", "On", "Standby">>], [type |-> "int", repr |-> "1"], TRUE >>,
                << [none |-> TRUE, values |-> <<>>], [type |-> "int", repr |-> "1"], TRUE >> } }

Item(uid, refCID, refDID) == [uid |-> uid, refCID |-> refCID, refDID |-> refDID]

\* uid 1 is a boolean, uid 2 a colour, uid 3 is listed twice and uid 4 not at all
DescriptionSamples ==
    << [ present |-> FALSE, sections |-> [s \in {} |-> <<>>] ],
       [ present |-> TRUE,
         sections |-> [s \in {"status", "setting", "option"} |->
            CASE s = "status" -> << Item(1, BoolRefCID, BoolRefDID), [uid |-> 3] >>
              [] s = "setting" -> << Item(2, ColorRefCID, ColorRefDID),
                                      Item(3, BoolRefCID, BoolRefDID) >>
              [] s = "option" -> << Item(1, ColorRefCID, ColorRefDID) >> ] ],
       [ present |-> TRUE,
         sections |-> [s \in {"setting", "command"} |->
            CASE s = "setting" -> << Item(1, BoolRefCID, ColorRefDID),
                                      Item(2, ColorRefCID, BoolRefDID),
                                      Item(3, ColorRefCID, ColorRefDID) >>
              [] s = "command" -> << Item(3, BoolRefCID, BoolRefDID),
                                      Item(2, ColorRefCID, ColorRefDID) >> ] ] >>

\* entities of an appliance: a dict, so the names are distinct; the k-th gets EntityNames[k]
RECURSIVE SeqsOf(_, _)
SeqsOf(S, n) ==
    IF n = 0 THEN { <<>> }
    ELSE LET shorter == SeqsOf(S, n - 1)
         IN  shorter \cup { Append(q, x) : q \in { r \in shorter : Len(r) = n - 1 }, x \in S }

Appliances ==
    { <<e>> : e \in DataPoints } \cup SeqsOf(SampleProfiles, MaxEntities)

\* ----------------------------------------------------------------- state
VARIABLES entities, description, available_entities, idx, entity_description, pc

vars == <<entities, description, available_entities, idx, entity_description, pc>>

Init ==
    /\ entities \in Appliances
    /\ \E d \in DOMAIN DescriptionSamples : description = DescriptionSamples[d]
    /\ available_entities = EmptyBuckets
    /\ idx = 0
    /\ entity_description = None
    /\ pc = "loop"

\* lines 201-206: one iteration of the for loop
LoopBody ==
    /\ pc = "loop"
    /\ idx < Len(entities)
    /\ LET r == create_entity_description(EntityNames[idx + 1], entities[idx + 1], description)
       IN  /\ entity_description' = r
           /\ available_entities' = AppendDescription(available_entities, r)
    /\ idx' = idx + 1
    /\ UNCHANGED <<entities, description, pc>>

\* line 208
Return ==
    /\ pc = "loop"
    /\ idx = Len(entities)
    /\ pc' = "done"
    /\ UNCHANGED <<entities, description, available_entities, idx, entity_description>>

Next == LoopBody \/ Return

Spec == Init /\ [][Next]_vars

TypeOK ==
    /\ idx \in 0..Len(entities)
    /\ pc \in {"loop", "done"}
    /\ DOMAIN available_entities = BucketKeys

\* ------------------------------------------------- vocabulary of the claims
Categories == {"button", "switch", "text", "select", "number", "binary_sensor", "sensor"}

UnusedBuckets == {"active_program", "event_sensor", "program", "start_button", "wifi", "light", "fan"}

ClassOfCategory ==
    [ c \in Categories |->
        CASE c = "button" -> "HCButtonEntityDescription"
          [] c = "switch" -> "HCSwitchEntityDescription"
          [] c = "text" -> "HCTextEntityDescription"
          [] c = "select" -> "HCSelectEntityDescription"
          [] c = "number" -> "HCNumberEntityDescription"
          [] c = "binary_sensor" -> "HCBinarySensorEntityDescription"
          [] c = "sensor" -> "HCSensorEntityDescription" ]

\* the data points the loop has processed
Processed == 1..idx

\* the places <<bucket, position>> that hold a descriptor of the k-th data point
Places(k) ==
    { bi \in UNION { {<<b, i>> : i \in DOMAIN available_entities[b]} : b \in DOMAIN available_entities } :
        available_entities[bi[1]][bi[2]].entity = EntityNames[k] }

Holding(k) == { bi[1] : bi \in Places(k) }

DescriptorsOf(k) == { available_entities[bi[1]][bi[2]] : bi \in Places(k) }

ReadOnly(e) == AccessOf(e) = READ
ReadWrite(e) == AccessOf(e) = READ_WRITE
WriteOnly(e) == AccessOf(e) = WRITE_ONLY

\* the schema entry of a data point: the first item with its uid, if any
HasSchemaEntry(e) == MatchingItems(e, description) # <<>>
SchemaEntry(e) == MatchingItems(e, description)[1]

BooleanTyped(e) ==
    \/ /\ HasSchemaEntry(e)
       /\ "refCID" \in DOMAIN SchemaEntry(e) /\ SchemaEntry(e).refCID = 1
       /\ "refDID" \in DOMAIN SchemaEntry(e) /\ SchemaEntry(e).refDID = 0
    \/ /\ ~HasSchemaEntry(e)
       /\ e.value.type = "bool"

ColorTyped(e) ==
    /\ HasSchemaEntry(e)
    /\ "refCID" \in DOMAIN SchemaEntry(e) /\ SchemaEntry(e).refCID = 30
    /\ "refDID" \in DOMAIN SchemaEntry(e) /\ SchemaEntry(e).refDID = 171

BinaryEnumerated(e) ==
    /\ HasEnum(e)
    /\ Len(e.enum.values) = 2
    /\ Range(e.enum.values) \in { {"Off", "On"}, {"False", "True"}, {"Inactive", "Active"}, {"Disabled", "Enabled"} }

Unmatched(e) == ~BooleanTyped(e) /\ ~ColorTyped(e) /\ ~HasEnum(e) /\ ~HasMinMax(e)

\* ------------------------------------------------------------------ claims

\* C1: whatever the data point's access mode, enumeration, bounds, value and
\* schema codes, _create_entity_description returns a tuple, never None, and
\* its category is one of the seven generated categories.
C1_ExactlyOneCategory ==
    idx > 0 =>
        /\ ~entity_description.none
        /\ entity_description.category \in Categories
        /\ entity_description.description.cls = ClassOfCategory[entity_description.category]
        /\ entity_description.description.entity = EntityNames[idx]

C1_Witness ==
    /\ idx = 1
    /\ entities[1].access = "NONE"
    /\ HasEnum(entities[1]) /\ entities[1].enum.values = <<>>
    /\ entities[1].value.type = "NoneType"
    /\ entity_description.category = "sensor"

\* C2: a write-only data point is classified as button, whatever its
\* enumeration, bounds, boolean type or colour type.
C2_WriteOnlyIsButton ==
    \A k \in Processed :
        WriteOnly(entities[k]) =>
            /\ Holding(k) = {"button"}
            /\ \A d \in DescriptorsOf(k) : d.cls = "HCButtonEntityDescription"

C2_Witness ==
    /\ idx = 1
    /\ WriteOnly(entities[1])
    /\ HasEnum(entities[1]) /\ HasMinMax(entities[1]) /\ BooleanTyped(entities[1])
    /\ Holding(1) = {"button"}

\* C3: a boolean-typed read-only data point is classified as binary_sensor,
\* with or without an enumeration.
C3_BooleanReadOnlyIsBinarySensor ==
    \A k \in Processed :
        (ReadOnly(entities[k]) /\ BooleanTyped(entities[k])) =>
            Holding(k) = {"binary_sensor"}

C3_Witness ==
    /\ idx = 1
    /\ ReadOnly(entities[1])
    /\ HasSchemaEntry(entities[1]) /\ BooleanTyped(entities[1])
    /\ HasEnum(entities[1]) /\ ~BinaryEnumerated(entities[1])
    /\ Holding(1) = {"binary_sensor"}

\* C4 as stated: every enumerated read-only data point is classified as
\* sensor with the enum device class.
C4_Original ==
    \A k \in Processed :
        (ReadOnly(entities[k]) /\ HasEnum(entities[k])) =>
            /\ Holding(k) = {"sensor"}
            /\ \A d \in DescriptorsOf(k) : d.device_class = SensorDeviceClassENUM

\* C4 amended: an enumerated read-only data point whose enumeration is not a
\* binary one and that is not boolean-typed is classified as sensor with the
\* enum device class; one with a binary enumeration, or boolean-typed, is
\* classified as binary_sensor.
C4_EnumReadOnlyIsEnumSensor ==
    \A k \in Processed :
        (ReadOnly(entities[k]) /\ HasEnum(entities[k])) =>
            IF BinaryEnumerated(entities[k]) \/ BooleanTyped(entities[k])
            THEN Holding(k) = {"binary_sensor"}
            ELSE /\ Holding(k) = {"sensor"}
                 /\ \A d \in DescriptorsOf(k) : d.device_class = SensorDeviceClassENUM

C4_Witness ==
    /\ idx = 1
    /\ ReadOnly(entities[1])
    /\ HasEnum(entities[1]) /\ Len(entities[1].enum.values) = 2
    /\ ~BinaryEnumerated(entities[1]) /\ ~BooleanTyped(entities[1])
    /\ Holding(1) = {"sensor"}
    /\ \A d \in DescriptorsOf(1) : d.device_class = SensorDeviceClassENUM

\* C5: a read-only data point that is neither boolean-typed nor enumerated is
\* classified as sensor with no device class, whatever its bounds or colour
\* type; a read-only data point is never a button, switch, text, select or number.
C5_OtherReadOnlyIsPlainSensor ==
    \A k \in Processed :
        ReadOnly(entities[k]) =>
            /\ Holding(k) \subseteq {"sensor", "binary_sensor"}
            /\ (~BooleanTyped(entities[k]) /\ ~HasEnum(entities[k])) =>
                  /\ Holding(k) = {"sensor"}
                  /\ \A d \in DescriptorsOf(k) : d.device_class = NotSet

C5_Witness ==
    /\ idx = 1
    /\ ReadOnly(entities[1])
    /\ ~BooleanTyped(entities[1]) /\ ~HasEnum(entities[1])
    /\ ColorTyped(entities[1]) /\ HasMinMax(entities[1])
    /\ Holding(1) = {"sensor"}

\* C6 as stated: a data point that matches none of the specific heuristics
\* falls through to the default sensor category, for every access mode.
C6_Original ==
    \A k \in Processed :
        Unmatched(entities[k]) =>
            /\ ~entity_description.none
            /\ Holding(k) = {"sensor"}

\* C6 amended: the classifier yields a result for every data point, and a data
\* point that matches none of the specific heuristics falls through to the
\* default of its access mode: button when write-only, switch when read-write,
\* sensor with no device class for every other access mode.
C6_UnmatchedFallsToDefault ==
    \A k \in Processed :
        Unmatched(entities[k]) =>
            /\ ~entity_description.none
            /\ Holding(k) = { IF WriteOnly(entities[k]) THEN "button"
                              ELSE IF ReadWrite(entities[k]) THEN "switch"
                              ELSE "sensor" }
            /\ \A d \in DescriptorsOf(k) : d.device_class = NotSet

C6_Witness ==
    /\ idx = 1
    /\ Unmatched(entities[1])
    /\ entities[1].access \in {"NONE", "READ_STATIC"}
    /\ Holding(1) = {"sensor"}

\* C7: for a read-write data point the first matching test decides, in the
\* order boolean-typed -> switch, colour-typed -> text, enumeration -> select,
\* bounds -> number, else switch; never button, sensor or binary_sensor.
C7_ReadWriteOrder ==
    \A k \in Processed :
        ReadWrite(entities[k]) =>
            Holding(k) = { IF BooleanTyped(entities[k]) THEN "switch"
                           ELSE IF ColorTyped(entities[k]) THEN "text"
                           ELSE IF HasEnum(entities[k]) THEN "select"
                           ELSE IF HasMinMax(entities[k]) THEN "number"
                           ELSE "switch" }

C7_Witness ==
    /\ idx = 1
    /\ ReadWrite(entities[1])
    /\ ~BooleanTyped(entities[1]) /\ ColorTyped(entities[1])
    /\ HasEnum(entities[1]) /\ HasMinMax(entities[1])
    /\ Holding(1) = {"text"}

\* C8: get_available_entities partitions the data points into the buckets:
\* after k data points the bucket sizes sum to k, every processed data point
\* has exactly one descriptor, in the bucket named by its category, no other
\* data point has one, and each bucket is in the iteration order of
\* appliance.entities; at the return every data point has been processed.
C8_Partition ==
    LET Size(b) == Len(available_entities[b])
        RECURSIVE Sum(_)
        Sum(B) == IF B = {} THEN 0
                  ELSE LET b == CHOOSE x \in B : TRUE IN Size(b) + Sum(B \ {b})
        IndexOf(d) == CHOOSE k \in DOMAIN EntityNames : EntityNames[k] = d.entity
    IN  /\ Sum(DOMAIN available_entities) = idx
        /\ \A k \in DOMAIN EntityNames :
              IF k \in Processed
              THEN /\ Cardinality(Places(k)) = 1
                   /\ \A bi \in Places(k) :
                         /\ bi[1] \in Categories
                         /\ available_entities[bi[1]][bi[2]].cls = ClassOfCategory[bi[1]]
              ELSE Places(k) = {}
        /\ \A b \in DOMAIN available_entities :
              \A i, j \in DOMAIN available_entities[b] :
                  i < j => IndexOf(available_entities[b][i]) < IndexOf(available_entities[b][j])
        /\ pc = "done" => idx = Len(entities)

C8_Witness ==
    /\ pc = "done"
    /\ Len(entities) = MaxEntities
    /\ \E b \in Categories : Len(available_entities[b]) >= 2
    /\ \E b \in Categories : Len(available_entities[b]) = 0

\* C9 as stated: every read-write data point that has an enumeration is
\* classified as select, never as switch or text.
C9_Original ==
    \A k \in Processed :
        (ReadWrite(entities[k]) /\ HasEnum(entities[k])) => Holding(k) = {"select"}

\* C9 amended: every read-write data point that has an enumeration, a binary
\* one such as Off/On included, and that is neither boolean-typed nor
\* colour-typed is classified as select; a boolean-typed one is a switch and
\* a colour-typed one that is not boolean-typed is a text.
C9_EnumReadWriteIsSelect ==
    \A k \in Processed :
        (ReadWrite(entities[k]) /\ HasEnum(entities[k])) =>
            /\ (~BooleanTyped(entities[k]) /\ ~ColorTyped(entities[k])) => Holding(k) = {"select"}
            /\ BooleanTyped(entities[k]) => Holding(k) = {"switch"}
            /\ (~BooleanTyped(entities[k]) /\ ColorTyped(entities[k])) => Holding(k) = {"text"}

C9_Witness ==
    /\ idx = 1
    /\ ReadWrite(entities[1])
    /\ BinaryEnumerated(entities[1])
    /\ ~BooleanTyped(entities[1]) /\ ~ColorTyped(entities[1])
    /\ Holding(1) = {"select"}

\* C10: the result always has all 14 bucket keys, the buckets active_program,
\* event_sensor, program, start_button, wifi, light and fan stay empty, and a
\* loop step changes no bucket other than the one named by the category of the
\* data point it processes, to which it appends.
C10_Frame ==
    /\ [](/\ DOMAIN available_entities = BucketKeys
          /\ Cardinality(DOMAIN available_entities) = 14
          /\ \A b \in UnusedBuckets : available_entities[b] = <<>>)
    /\ [][ /\ DOMAIN available_entities' = DOMAIN available_entities
           /\ \A b \in DOMAIN available_entities :
                 IF idx' # idx /\ b = entity_description'.category
                 THEN /\ b \in Categories
                      /\ available_entities'[b] =
                            Append(available_entities[b], entity_description'.description)
                 ELSE available_entities'[b] = available_entities[b] ]_vars

C10_Witness ==
    /\ pc = "done"
    /\ Len(entities) = MaxEntities
    /\ \A b \in UnusedBuckets : available_entities[b] = <<>>
    /\ Cardinality({ b \in Categories : available_entities[b] # <<>> }) = 2

====
